---- MODULE Spec2Model ----
(***************************************************************************)
(* Model of UserPromptPlugin (src/__init__.py): the step-run handshake     *)
(* (on_step_run -> on_step_complete), the options-edit flow and the GTK    *)
(* idle queue that every decorated handler is scheduled on, and the entry   *)
(* of the Tools menu that create_ui adds and destroy_ui removes.           *)
(*                                                                         *)
(* Every handler of the plugin is wrapped by gtk_threadsafe, which hands   *)
(* the call to the GTK main loop as an idle callback.  A handler that      *)
(* opens a modal dialog blocks inside a nested main loop, which keeps      *)
(* dispatching idle callbacks: the UI thread is a stack of frames.         *)
(***************************************************************************)
EXTENDS Integers, Sequences, FiniteSets, TLC

\* Bounds of the model.
MaxCalls == 2          \* handler invocations made by the host or the menu
NumSteps == 2          \* steps of the protocol
MaxToggles == 2        \* on_plugin_enable / on_plugin_disable calls

InvId == 1 .. MaxCalls
LifeId == (MaxCalls + 1) .. (MaxCalls + MaxToggles)
StepIndex == 0 .. (NumSteps - 1)
Threads == {"ui", "worker"}

PluginName == "user_prompt_plugin"

\* Texts the operator can type into the options dialog.
NoText == ""
MessageText == "Insert electrode"
WhitespaceSchema == "  "
MalformedSchema == "{not json"
ShapelessSchema == "[1]"
VoltageSchema == "{\"fields\":{\"voltage\":{\"type\":\"float\"}}}"

Messages == {NoText, MessageText}
SchemaTexts == {NoText, WhitespaceSchema, MalformedSchema, ShapelessSchema,
                VoltageSchema}

\* Values the operator can enter into a field of the structured prompt.
FieldValues == {5, 12}

\* gtk response codes of the message dialog.
RESPONSE_ACCEPT == "RESPONSE_ACCEPT"
RESPONSE_REJECT == "RESPONSE_REJECT"
RESPONSE_DELETE_EVENT == "RESPONSE_DELETE_EVENT"

\* buttons= of the message dialog (lines 161-164): OK and Cancel.
MessageDialogButtons == {RESPONSE_ACCEPT, RESPONSE_REJECT}

\* What dialog.run() can return: the response of a button, or the delete
\* event when the operator closes the window.
Responses(buttons) == buttons \cup {RESPONSE_DELETE_EVENT}

\* Outcomes carried by on_step_complete ("None" stands for Python's None).
None == "None"
Fail == "Fail"

(***************************************************************************)
(* Pure functions.                                                         *)
(***************************************************************************)

\* Python truth value of a string: `not s` is true exactly of the empty one.
Truthy(s) == s # ""

\* str.strip(): removes surrounding whitespace.
Strip(s) == IF s = WhitespaceSchema THEN "" ELSE s

\* json.loads(text): the decoded value, or ValueError.
JsonLoads(text) ==
    CASE text = VoltageSchema ->
            [ok |-> TRUE, kind |-> "object", fields |-> {"voltage"}]
      [] text = ShapelessSchema ->
            [ok |-> TRUE, kind |-> "array", fields |-> {}]
      [] OTHER ->
            [ok |-> FALSE, kind |-> "ValueError", fields |-> {}]

\* pg.schema.get_fields_frame(schema): derives field descriptors from a
\* decoded object, raises on any other shape.
GetFieldsFrameOk(decoded) == decoded.ok /\ decoded.kind = "object"

\* The try block of the options-edit flow: TRUE iff it raises.
ValidationRaises(schema) == ~ GetFieldsFrameOk(JsonLoads(schema))

\* str.format of a step number (decimal digits of a small number).
Str(n) == CASE n = 0 -> "0" [] n = 1 -> "1" [] n = 2 -> "2" [] n = 3 -> "3"
            [] n = 4 -> "4" [] OTHER -> "5"

\* 'Step {}'.format(current_step_number + 1), as a sequence of text pieces.
StepTitle(n) == << "Step ", Str(n + 1) >>

\* Mutant: the title of a form with a message has no opening bracket.
BracketTitle_NoOpen(title, message) == title \o << "] ", message >>

\* '[{}] {}'.format(title, message)
BracketTitle(title, message) == << "[" >> \o title \o << "] ", message >>

\* The mappings a form over `fields` can return: sets of <<name, value>>
\* pairs with exactly one pair per field.
Keys(values) == { p[1] : p \in values }
FormValues(fields) ==
    { v \in SUBSET (fields \X FieldValues) :
        /\ Keys(v) = fields
        /\ Cardinality(v) = Cardinality(fields) }

(***************************************************************************)
(* State.                                                                  *)
(***************************************************************************)
VARIABLES
    steps,                \* configuration store: step index -> StepOptions
    current_step_number,  \* app.protocol.current_step_number
    inv,                  \* invocation id -> frame of that handler call
    queue,                \* GTK idle queue: ids of scheduled calls
    stack,                \* UI thread: ids of the running frames, top last
    emitted,              \* on_step_complete emissions delivered to the host
    notifs,               \* step-prompt-accepted notifications delivered
    log,                  \* log records
    writes,               \* set_step_values calls
    last,                 \* the handler call that ended last, as it ended
    menu_tools,           \* main_window_controller.menu_tools: its items
    step_options_menu     \* self.step_options_menu: 0 (None) or an item

vars == << steps, current_step_number, inv, queue, stack, emitted, notifs,
           log, writes, last, menu_tools, step_options_menu >>

\* The Tools menu and the plugin's reference to its entry.
menu == << menu_tools, step_options_menu >>

DefaultOptions == [message |-> NoText, schema |-> NoText]

NoFrame == [fn |-> "none", pc |-> "idle",
            step |-> 0, step_options |-> DefaultOptions, title |-> << >>,
            mode |-> "none", buttons |-> {}, response |-> "none",
            values |-> {},
            entered |-> DefaultOptions, fault |-> "none",
            events |-> << >>, thread |-> "none"]

\* The record kept of a call that has ended: its frame and its id.
Ended(id, frame) == [id |-> id, frame |-> frame]

\* What stays of a frame once its call has ended.
Closed(frame) == [NoFrame EXCEPT !.fn = frame.fn, !.pc = frame.pc]

\* The state after __init__ (lines 52-60): no menu entry has been created.
Init ==
    /\ steps = [n \in StepIndex |-> DefaultOptions]
    /\ current_step_number = 0
    /\ inv = [i \in InvId \cup LifeId |-> NoFrame]
    /\ queue = << >>
    /\ stack = << >>
    /\ emitted = << >>
    /\ notifs = << >>
    /\ log = << >>
    /\ writes = << >>
    /\ last = Ended(0, NoFrame)
    /\ menu_tools = << >>
    /\ step_options_menu = 0

\* The state in which the host uses the plugin: it was constructed and
\* enabled once, and the create_ui of on_plugin_enable has run (lines
\* 62-80), so the Tools menu holds the entry.
EnabledInit ==
    /\ steps = [n \in StepIndex |-> DefaultOptions]
    /\ current_step_number = 0
    /\ inv = [i \in InvId \cup LifeId |-> NoFrame]
    /\ queue = << >>
    /\ stack = << >>
    /\ emitted = << >>
    /\ notifs = << >>
    /\ log = << >>
    /\ writes = << >>
    /\ last = Ended(0, NoFrame)
    /\ menu_tools = << 1 >>
    /\ step_options_menu = 1

(***************************************************************************)
(* Helpers over the state.                                                 *)
(***************************************************************************)
NextId == Cardinality({ i \in InvId : inv[i].pc # "idle" }) + 1
NextLifeId == MaxCalls + Cardinality({ i \in LifeId : inv[i].pc # "idle" }) + 1
Top == stack[Len(stack)]
Pop(s) == SubSeq(s, 1, Len(s) - 1)
IsTop(id) == IF stack = << >> THEN FALSE ELSE Top = id

\* A frame blocked in dialog.run() sits in a nested main loop.
BlockedPcs == {"dialog_run", "schema_dialog", "edit_dialog"}

\* The main loop (outermost or nested) takes the next idle callback.
CanDispatch(id) ==
    /\ queue # << >>
    /\ Head(queue) = id
    /\ IF stack = << >> THEN TRUE ELSE inv[Top].pc \in BlockedPcs

LogRecord(id, level, msg) == [id |-> id, level |-> level, msg |-> msg]
Emission(id, outcome) == [id |-> id, name |-> PluginName, outcome |-> outcome]
Notification(id, values) == [id |-> id, values |-> values]

\* One signal sent by a handler, as the order of sending records it.
Event(signal, outcome) == [signal |-> signal, outcome |-> outcome]
EventsOf(e, n) ==
    [i \in DOMAIN n |-> Event("step-prompt-accepted", "")]
    \o [i \in DOMAIN e |-> Event("on_step_complete", e[i].outcome)]

\* What a piece of a handler adds to the observable sequences.  A piece is
\* one statement: it sends a notification or an outcome, never both, and
\* `events` keeps the order in which the pieces of a call send them.
Effect(l, e, n) ==
    [log |-> l, emitted |-> e, notifs |-> n, events |-> EventsOf(e, n)]
Then(a, b) ==
    [log |-> a.log \o b.log, emitted |-> a.emitted \o b.emitted,
     notifs |-> a.notifs \o b.notifs, events |-> a.events \o b.events]

(***************************************************************************)
(* gtk_threadsafe: the call is handed to the main loop with idle_add and   *)
(* the caller continues at once.  The wrapper does not look at the thread  *)
(* it is called on: the body runs on the thread of the main loop.          *)
(***************************************************************************)
\* Mutant: the body runs on the thread that made the call.
ExecThread_Direct(thread) == thread

\* The thread that runs a callback given to gobject.idle_add.
ExecThread(thread) == "ui"

gtk_threadsafe(id, fn, thread) ==
    /\ id \in DOMAIN inv
    /\ inv[id].pc = "idle"
    /\ thread \in Threads
    /\ inv' = [inv EXCEPT ![id] = [@ EXCEPT !.fn = fn, !.pc = "queued",
                                            !.thread = ExecThread(thread)]]
    /\ queue' = Append(queue, id)

\* The host runs a step: emit_signal('on_step_run') reaches the plugin.
Host_on_step_run ==
    /\ NextId \in InvId
    /\ \E thread \in Threads : gtk_threadsafe(NextId, "on_step_run", thread)
    /\ UNCHANGED << steps, current_step_number, stack, emitted, notifs, log,
                    writes, last, menu >>

\* The operator picks "Set step prompt..." in the Tools menu: the handler is
\* connected to the 'activate' signal of every entry that create_ui made
\* (lines 75-76), so there must be an entry in the menu.
Menu_activate ==
    /\ menu_tools # << >>
    /\ NextId \in InvId
    /\ gtk_threadsafe(NextId, "on_step_options_menu__activate", "ui")
    /\ UNCHANGED << steps, current_step_number, stack, emitted, notifs, log,
                    writes, last, menu >>

\* The host selects another step of the protocol.
Host_goto_step ==
    /\ \E n \in StepIndex \ {current_step_number} : current_step_number' = n
    /\ UNCHANGED << steps, inv, queue, stack, emitted, notifs, log, writes,
                    last, menu >>

\* The host enables / disables the plugin (lines 94-98): the undecorated
\* hooks call the decorated create_ui / destroy_ui.
on_plugin_enable ==
    /\ NextLifeId \in LifeId
    /\ \E thread \in Threads : gtk_threadsafe(NextLifeId, "create_ui", thread)
    /\ UNCHANGED << steps, current_step_number, stack, emitted, notifs, log,
                    writes, last, menu >>

on_plugin_disable ==
    /\ NextLifeId \in LifeId
    /\ \E thread \in Threads : gtk_threadsafe(NextLifeId, "destroy_ui", thread)
    /\ UNCHANGED << steps, current_step_number, stack, emitted, notifs, log,
                    writes, last, menu >>

(***************************************************************************)
(* create_ui / destroy_ui                                                  *)
(***************************************************************************)
\* gtk.MenuItem(...): a new item, numbered in the order of creation.  The
\* reference self.step_options_menu always holds the newest item.
NewMenuItem == step_options_menu + 1

\* gtk.Container.remove(widget): takes the widget out if it is a child,
\* and leaves the container as it is otherwise.
Remove(container, widget) == SelectSeq(container, LAMBDA w : w # widget)

\* The end of a lifecycle call: it returned, or it raised into the main loop.
LifeEnd(id, pc) ==
    LET frame == [inv[id] EXCEPT !.pc = pc]
    IN  /\ inv' = [inv EXCEPT ![id] = Closed(frame)]
        /\ last' = Ended(id, frame)
        /\ queue' = Tail(queue)
        /\ UNCHANGED << steps, current_step_number, stack, emitted, notifs,
                        log, writes >>

\* create_ui (lines 62-80): make the item, keep the reference, append the
\* item to the Tools menu.
create_ui(id) ==
    /\ CanDispatch(id)
    /\ inv[id].fn = "create_ui"
    /\ step_options_menu' = NewMenuItem
    /\ menu_tools' = Append(menu_tools, NewMenuItem)
    /\ LifeEnd(id, "returned")

\* destroy_ui (lines 82-90): remove the referenced item from the Tools
\* menu.  The reference is not reset.  remove(None) raises TypeError.
destroy_ui(id) ==
    /\ CanDispatch(id)
    /\ inv[id].fn = "destroy_ui"
    /\ IF step_options_menu = 0
       THEN /\ UNCHANGED menu
            /\ LifeEnd(id, "raised")
       ELSE /\ menu_tools' = Remove(menu_tools, step_options_menu)
            /\ UNCHANGED step_options_menu
            /\ LifeEnd(id, "returned")

(***************************************************************************)
(* on_step_run                                                             *)
(***************************************************************************)

\* Mutant: the cancellation is logged like a fault.
except_ValueError_LogsError(id) ==
    Effect(<< LogRecord(id, "error", "Protocol stopped.") >>,
           << Emission(id, Fail) >>, << >>)

\* Mutant: the notification is sent when the prompt is cancelled, too.
except_ValueError_Notifies(id) ==
    Effect(<< LogRecord(id, "warning", "Protocol stopped.") >>,
           << Emission(id, Fail) >>, << Notification(id, {}) >>)

\* except ValueError: (lines 192-195)
except_ValueError(id) ==
    Effect(<< LogRecord(id, "warning", "Protocol stopped.") >>,
           << Emission(id, Fail) >>, << >>)

\* Mutant: a fault asks the host to run the step again.
except_Exception_Retries(id) ==
    Effect(<< LogRecord(id, "error", "Protocol stopped.") >>,
           << Emission(id, "Retry") >>, << >>)

\* except Exception: (lines 196-199)
except_Exception(id) ==
    Effect(<< LogRecord(id, "error", "Protocol stopped.") >>,
           << Emission(id, Fail) >>, << >>)

\* The except clauses of the try statement, in order.
Catch(id, exc) ==
    IF exc = "ValueError" THEN except_ValueError(id) ELSE except_Exception(id)

\* Mutant: the step is reported complete as soon as the handler starts.
RunInfo_EmitsEarly(id) ==
    Effect(<< LogRecord(id, "info", "on_step_run") >>,
           << Emission(id, None) >>, << >>)

\* logger.info of line 145
RunInfo(id) ==
    Effect(<< LogRecord(id, "info", "on_step_run") >>, << >>, << >>)

\* Mutant: the second `not` of the test is dropped.
NothingToDo_DroppedNot(step_options) ==
    ~ Truthy(step_options.message) /\ Truthy(step_options.schema)

\* The fast-path test of line 148.
NothingToDo(step_options) ==
    ~ Truthy(step_options.message) /\ ~ Truthy(step_options.schema)

\* The test of line 155: no schema, display a simple message box.
NoSchema(step_options) == ~ Truthy(step_options.schema)

\* Lines 180-182: the title of the structured prompt.
SchemaDialogTitle(title, step_options) ==
    IF Truthy(step_options.message)
    THEN BracketTitle(title, step_options.message)
    ELSE title

\* Places of on_step_run, up to the blocking dialog call, where a call into
\* the host or the toolkit can raise.
BeginFaults == {"none", "current_step_number", "get_step_options",
                "emit_fast", "title", "parent_window", "build_dialog"}

\* An emit that raises may or may not have reached its receivers.
Delivered(delivered, records) == IF delivered THEN records ELSE << >>

\* Lines 144-186 up to the point where the handler blocks in a dialog.
\* The result names the pc reached, the locals and the observable effect.
RunBegin(id, n, step_options, fault, delivered) ==
    LET title == StepTitle(n)
        base == [pc |-> "raised", mode |-> "none", buttons |-> {},
                 title |-> << >>,
                 step_options |-> DefaultOptions, fault |-> fault,
                 eff |-> Effect(<< >>, << >>, << >>)]
        read == [base EXCEPT !.step_options = step_options,
                             !.eff = RunInfo(id)]
        decoded == JsonLoads(step_options.schema)
    IN  CASE fault = "current_step_number" -> base
          [] fault = "get_step_options" -> [base EXCEPT !.eff = RunInfo(id)]
          [] fault # "current_step_number" /\ fault # "get_step_options"
             /\ NothingToDo(step_options) ->
                IF fault = "emit_fast"
                THEN [read EXCEPT !.mode = "fast",
                        !.eff = Then(RunInfo(id),
                                     Effect(<< >>,
                                       Delivered(delivered,
                                                 << Emission(id, None) >>),
                                       << >>))]
                ELSE [read EXCEPT !.pc = "returned", !.mode = "fast",
                        !.eff = Then(RunInfo(id),
                                     Effect(<< >>, << Emission(id, None) >>,
                                            << >>))]
          [] OTHER ->
                IF fault = "title" THEN read
                ELSE IF fault = "parent_window"
                THEN [read EXCEPT !.pc = "returned", !.title = title,
                        !.eff = Then(RunInfo(id), Catch(id, "Exception"))]
                ELSE IF NoSchema(step_options)
                THEN IF fault = "build_dialog"
                     THEN [read EXCEPT !.pc = "returned", !.title = title,
                             !.mode = "message",
                             !.eff = Then(RunInfo(id),
                                          Catch(id, "Exception"))]
                     ELSE [read EXCEPT !.pc = "dialog_run", !.title = title,
                             !.mode = "message",
                             !.buttons = MessageDialogButtons]
                ELSE LET t == SchemaDialogTitle(title, step_options)
                     IN  IF ~ decoded.ok
                         THEN [read EXCEPT !.pc = "returned", !.title = t,
                                 !.mode = "structured",
                                 !.fault = "json_loads",
                                 !.eff = Then(RunInfo(id),
                                              Catch(id, "ValueError"))]
                         ELSE IF fault = "build_dialog"
                                 \/ ~ GetFieldsFrameOk(decoded)
                         THEN [read EXCEPT !.pc = "returned", !.title = t,
                                 !.mode = "structured",
                                 !.fault = "build_dialog",
                                 !.eff = Then(RunInfo(id),
                                              Catch(id, "Exception"))]
                         ELSE [read EXCEPT !.pc = "schema_dialog",
                                 !.title = t, !.mode = "structured"]

\* A fault can only be raised at a place the call passes through.
BeginFaultApplies(step_options, fault, delivered) ==
    /\ (delivered => fault = "emit_fast")
    /\ (fault = "emit_fast" => NothingToDo(step_options))
    /\ (fault \in {"title", "parent_window"} => ~ NothingToDo(step_options))
    /\ (fault = "build_dialog" =>
            /\ ~ NothingToDo(step_options)
            /\ (NoSchema(step_options) \/
                GetFieldsFrameOk(JsonLoads(step_options.schema))))

\* The main loop runs the queued on_step_run until it returns, raises or
\* blocks in a dialog.
on_step_run_begin(id) ==
    /\ CanDispatch(id)
    /\ inv[id].fn = "on_step_run"
    /\ \E fault \in BeginFaults, delivered \in BOOLEAN :
        LET step_options == steps[current_step_number]
            r == RunBegin(id, current_step_number, step_options, fault,
                          delivered)
            frame == [inv[id] EXCEPT !.pc = r.pc, !.mode = r.mode,
                                     !.buttons = r.buttons,
                                     !.title = r.title,
                                     !.step = current_step_number,
                                     !.step_options = r.step_options,
                                     !.fault = r.fault,
                                     !.events = r.eff.events]
        IN  /\ BeginFaultApplies(step_options, fault, delivered)
            /\ IF r.pc \in BlockedPcs
               THEN /\ inv' = [inv EXCEPT ![id] = frame]
                    /\ stack' = Append(stack, id)
                    /\ UNCHANGED last
               ELSE /\ inv' = [inv EXCEPT ![id] = Closed(frame)]
                    /\ stack' = stack
                    /\ last' = Ended(id, frame)
            /\ log' = log \o r.eff.log
            /\ emitted' = emitted \o r.eff.emitted
            /\ notifs' = notifs \o r.eff.notifs
    /\ queue' = Tail(queue)
    /\ UNCHANGED << steps, current_step_number, writes, menu >>

\* The handler connected in __init__ (lines 59-60) logs the accepted values.
AcceptedInfo(id) == << LogRecord(id, "info", "Step prompt accepted") >>

\* Mutant: the notification carries no values.
EmitAccepted_NoValues(id, values, fault, delivered) ==
    IF fault = "emit_accepted"
    THEN Then(Effect(Delivered(delivered, AcceptedInfo(id)), << >>,
                     Delivered(delivered, << Notification(id, {}) >>)),
              Catch(id, "Exception"))
    ELSE Then(Effect(AcceptedInfo(id), << >>, << Notification(id, {}) >>),
              IF fault = "emit_complete"
              THEN Then(Effect(<< >>,
                               Delivered(delivered, << Emission(id, None) >>),
                               << >>),
                        Catch(id, "Exception"))
              ELSE Effect(<< >>, << Emission(id, None) >>, << >>))

\* Mutant: the success outcome is signalled before the notification.
EmitAccepted_CompleteFirst(id, values, fault, delivered) ==
    Then(Effect(<< >>, << Emission(id, None) >>, << >>),
         Effect(AcceptedInfo(id), << >>, << Notification(id, values) >>))

\* Lines 187-191, with the except clauses that enclose them: emit the
\* notification, then signal that the step has completed.
EmitAccepted(id, values, fault, delivered) ==
    IF fault = "emit_accepted"
    THEN Then(Effect(Delivered(delivered, AcceptedInfo(id)), << >>,
                     Delivered(delivered, << Notification(id, values) >>)),
              Catch(id, "Exception"))
    ELSE Then(Effect(AcceptedInfo(id), << >>,
                     << Notification(id, values) >>),
              IF fault = "emit_complete"
              THEN Then(Effect(<< >>,
                               Delivered(delivered, << Emission(id, None) >>),
                               << >>),
                        Catch(id, "Exception"))
              ELSE Effect(<< >>, << Emission(id, None) >>, << >>))

\* Mutant: only the Cancel button stops the protocol.
MessageResponse_RejectOnly(id, response_code, fault, delivered) ==
    IF response_code = RESPONSE_REJECT
    THEN Catch(id, "ValueError")
    ELSE EmitAccepted(id, {}, fault, delivered)

\* Lines 174-178: the response code of the message dialog.
MessageResponse(id, response_code, fault, delivered) ==
    IF response_code # RESPONSE_ACCEPT
    THEN Catch(id, "ValueError")
    ELSE EmitAccepted(id, {}, fault, delivered)

RespondFaults == {"none", "emit_accepted", "emit_complete"}

Finish(id, response, values, fault, eff) ==
    /\ LET frame == [inv[id] EXCEPT !.pc = "returned", !.response = response,
                                    !.values = values, !.fault = fault,
                                    !.events = eff.events]
       IN  /\ inv' = [inv EXCEPT ![id] = Closed(frame)]
           /\ last' = Ended(id, frame)
    /\ stack' = Pop(stack)
    /\ log' = log \o eff.log
    /\ emitted' = emitted \o eff.emitted
    /\ notifs' = notifs \o eff.notifs

\* dialog.run() of the message box returns (lines 172-178, 187-199).
on_step_run_message_response(id) ==
    /\ IsTop(id)
    /\ inv[id].pc = "dialog_run"
    /\ \E response_code \in Responses(inv[id].buttons),
          fault \in RespondFaults,
          delivered \in BOOLEAN :
        /\ (response_code # RESPONSE_ACCEPT => fault = "none")
        /\ (delivered => fault # "none")
        /\ Finish(id, response_code, {}, fault,
                  MessageResponse(id, response_code, fault, delivered))
    /\ UNCHANGED << steps, current_step_number, queue, writes, menu >>

\* Mutant: an open prompt times out and the step fails without a response.
on_step_run_dialog_fault_Timeout(id) ==
    /\ IsTop(id)
    /\ inv[id].pc \in {"dialog_run", "schema_dialog"}
    /\ Finish(id, "none", {}, "none", Catch(id, "Exception"))
    /\ UNCHANGED << steps, current_step_number, queue, writes, menu >>

\* dialog.run() or dialog.destroy() raises (lines 172-173).
on_step_run_dialog_fault(id) ==
    /\ IsTop(id)
    /\ inv[id].pc \in {"dialog_run", "schema_dialog"}
    /\ Finish(id, "none", {},
              IF inv[id].pc = "dialog_run" THEN "dialog_run"
              ELSE "schema_dialog",
              Catch(id, "Exception"))
    /\ UNCHANGED << steps, current_step_number, queue, writes, menu >>

\* pg.schema.schema_dialog returns the entered values (line 185).
on_step_run_schema_submit(id) ==
    /\ IsTop(id)
    /\ inv[id].pc = "schema_dialog"
    /\ \E values \in FormValues(JsonLoads(inv[id].step_options.schema).fields),
          fault \in RespondFaults, delivered \in BOOLEAN :
        /\ (delivered => fault # "none")
        /\ Finish(id, "submit", values, fault,
                  EmitAccepted(id, values, fault, delivered))
    /\ UNCHANGED << steps, current_step_number, queue, writes, menu >>

\* pg.schema.schema_dialog raises ValueError: the operator cancelled.
on_step_run_schema_cancel(id) ==
    /\ IsTop(id)
    /\ inv[id].pc = "schema_dialog"
    /\ Finish(id, "cancel", {}, "none", Catch(id, "ValueError"))
    /\ UNCHANGED << steps, current_step_number, queue, writes, menu >>

(***************************************************************************)
(* on_step_options_menu__activate                                          *)
(***************************************************************************)

\* Lines 110-112: the dialog is built and shown with the options of the
\* current step.
activate_begin(id) ==
    /\ CanDispatch(id)
    /\ inv[id].fn = "on_step_options_menu__activate"
    /\ inv' = [inv EXCEPT ![id] =
                 [@ EXCEPT !.pc = "edit_dialog", !.mode = "edit",
                           !.step = current_step_number]]
    /\ stack' = Append(stack, id)
    /\ queue' = Tail(queue)
    /\ UNCHANGED << steps, current_step_number, emitted, notifs, log,
                    writes, last, menu >>

\* Line 114: validate only a schema that is not blank.
NeedsValidation(schema) == Truthy(Strip(schema))

\* Lines 114-121: the schema that is saved.
SavedSchema(schema) ==
    IF NeedsValidation(schema) /\ ValidationRaises(schema) THEN "" ELSE schema

\* Lines 119-120: the validation failure is logged.
ValidationLog(id, schema) ==
    IF NeedsValidation(schema) /\ ValidationRaises(schema)
    THEN << LogRecord(id, "error", "Invalid schema") >>
    ELSE << >>

\* set_step_values(values): writes the options of the current step.
set_step_values(id, values) ==
    /\ steps' = [steps EXCEPT ![current_step_number] = values]
    /\ writes' = Append(writes, [id |-> id, step |-> current_step_number,
                                 values |-> values])

\* Mutant: the entered values are saved whether or not the dialog was
\* confirmed.
activate_response_WritesOnCancel(id) ==
    /\ IsTop(id)
    /\ inv[id].pc = "edit_dialog"
    /\ \E ok \in BOOLEAN, message \in Messages, schema \in SchemaTexts :
        LET values == [message |-> message, schema |-> schema]
            frame == [inv[id] EXCEPT !.pc = "returned",
                                     !.response = IF ok THEN "ok" ELSE "cancel",
                                     !.entered = values]
        IN  /\ (~ ok => values = DefaultOptions)
            /\ inv' = [inv EXCEPT ![id] = Closed(frame)]
            /\ last' = Ended(id, frame)
            /\ log' = log \o ValidationLog(id, schema)
            /\ set_step_values(id,
                  [values EXCEPT !.schema = SavedSchema(schema)])
    /\ stack' = Pop(stack)
    /\ UNCHANGED << current_step_number, queue, emitted, notifs, menu >>

\* step_options_dialog.run returns (lines 112-122).
activate_response(id) ==
    /\ IsTop(id)
    /\ inv[id].pc = "edit_dialog"
    /\ \E ok \in BOOLEAN, message \in Messages, schema \in SchemaTexts :
        LET values == [message |-> message, schema |-> schema]
            frame == [inv[id] EXCEPT !.pc = "returned",
                                     !.response = IF ok THEN "ok" ELSE "cancel",
                                     !.entered = values]
        IN  /\ (~ ok => values = DefaultOptions)
            /\ inv' = [inv EXCEPT ![id] = Closed(frame)]
            /\ last' = Ended(id, frame)
            /\ IF ok
               THEN /\ log' = log \o ValidationLog(id, schema)
                    /\ set_step_values(id,
                          [values EXCEPT !.schema = SavedSchema(schema)])
               ELSE UNCHANGED << log, steps, writes >>
    /\ stack' = Pop(stack)
    /\ UNCHANGED << current_step_number, queue, emitted, notifs, menu >>

(***************************************************************************)
(* Specification.                                                          *)
(***************************************************************************)
UIStep ==
    \E id \in InvId :
        \/ on_step_run_begin(id)
        \/ on_step_run_message_response(id)
        \/ on_step_run_dialog_fault(id)
        \/ on_step_run_schema_submit(id)
        \/ on_step_run_schema_cancel(id)
        \/ activate_begin(id)
        \/ activate_response(id)

Next ==
    \/ Host_on_step_run
    \/ Menu_activate
    \/ Host_goto_step
    \/ UIStep

\* The plugin in use: enabled, with the host leaving it enabled.
Spec == EnabledInit /\ [][Next]_vars

\* The plugin from its construction on, with the host enabling and
\* disabling it at any time.
LifeStep == \E id \in LifeId : create_ui(id) \/ destroy_ui(id)

LifecycleNext ==
    \/ on_plugin_enable
    \/ on_plugin_disable
    \/ LifeStep
    \/ Next

LifecycleSpec == Init /\ [][LifecycleNext]_vars

\* The UI thread keeps draining the idle queue and the operator answers
\* every prompt that is open.
FairSpec == Spec /\ WF_vars(UIStep)

\* The protocol controller of the host waits for on_step_complete of the
\* step it runs before it runs the next one: every earlier call of
\* on_step_run has reported an outcome.
OutcomeReported(id) == \E i \in DOMAIN emitted : emitted[i].id = id
HostWaitsForOutcome ==
    \A id \in InvId : inv[id].fn = "on_step_run" => OutcomeReported(id)

DisciplinedNext ==
    \/ HostWaitsForOutcome /\ Host_on_step_run
    \/ Menu_activate
    \/ Host_goto_step
    \/ UIStep

\* A protocol that was saved with prompts: the options the edit flow stores
\* for a message prompt and for a form prompt with a message.
MessagePrompt == [message |-> MessageText, schema |-> NoText]
FormPrompt == [message |-> MessageText, schema |-> VoltageSchema]
StoredProtocol ==
    [n \in StepIndex |-> CASE n = 0 -> MessagePrompt
                            [] n = 1 -> FormPrompt
                            [] OTHER -> DefaultOptions]

\* The state after construction with such a protocol loaded by the host.
ProtocolInit ==
    /\ steps = StoredProtocol
    /\ current_step_number = 0
    /\ inv = [i \in InvId \cup LifeId |-> NoFrame]
    /\ queue = << >>
    /\ stack = << >>
    /\ emitted = << >>
    /\ notifs = << >>
    /\ log = << >>
    /\ writes = << >>
    /\ last = Ended(0, NoFrame)
    /\ menu_tools = << 1 >>
    /\ step_options_menu = 1

DisciplinedSpec == ProtocolInit /\ [][DisciplinedNext]_vars

(***************************************************************************)
(* Observations of one handler call.                                       *)
(***************************************************************************)
EmittedBy(id) == SelectSeq(emitted, LAMBDA e : e.id = id)
NotifsBy(id) == SelectSeq(notifs, LAMBDA n : n.id = id)
LogBy(id) == SelectSeq(log, LAMBDA l : l.id = id)
WritesBy(id) == SelectSeq(writes, LAMBDA w : w.id = id)

Outcomes(id) == [i \in 1 .. Len(EmittedBy(id)) |-> EmittedBy(id)[i].outcome]
Levels(id) == { LogBy(id)[i].level : i \in 1 .. Len(LogBy(id)) }
LastOutcome(id) ==
    IF EmittedBy(id) = << >> THEN "nothing"
    ELSE EmittedBy(id)[Len(EmittedBy(id))].outcome

\* The call that ended last was a call of on_step_run / of the edit flow.
RunEnded == last.frame.fn = "on_step_run"
EditEnded == last.frame.fn = "on_step_options_menu__activate"

\* The operator dismissed the prompt of the call that ended last.
Cancelled ==
    \/ last.frame.mode = "message"
          /\ last.frame.response \in {RESPONSE_REJECT, RESPONSE_DELETE_EVENT}
    \/ last.frame.mode = "structured" /\ last.frame.response = "cancel"

\* The operator accepted the prompt of the call that ended last.
Accepted ==
    \/ last.frame.mode = "message" /\ last.frame.response = RESPONSE_ACCEPT
    \/ last.frame.mode = "structured" /\ last.frame.response = "submit"

\* Faults raised inside the try statement of on_step_run.
TryFaults == {"parent_window", "build_dialog", "json_loads", "dialog_run",
              "schema_dialog", "emit_accepted", "emit_complete"}

(***************************************************************************)
(* C1..C10                                                                 *)
(***************************************************************************)

\* C1: every call of on_step_run that has ended, whatever the step options,
\* the operator's response or the fault, has produced exactly one
\* on_step_complete emission, and no call ever produces two.
C1_ExactlyOneEmission ==
    \A id \in InvId :
        /\ Len(EmittedBy(id)) <= 1
        /\ (inv[id].fn = "on_step_run" /\ inv[id].pc \in {"returned", "raised"}
              => Len(EmittedBy(id)) = 1)

\* C2: with the UI thread draining its queue and the operator answering
\* every prompt, each scheduled call of on_step_run is eventually followed
\* by an on_step_complete emission of that call.
C2_HostNeverLeftWaiting ==
    \A id \in InvId :
        (inv[id].fn = "on_step_run" /\ inv[id].pc = "queued")
            ~> (EmittedBy(id) # << >>)

\* C3: when the operator cancels the prompt (message box or structured
\* form), on_step_run reports Fail, logs a warning and logs no error.
C3_CancelIsWarning ==
    (RunEnded /\ Cancelled) =>
        /\ Outcomes(last.id) = << Fail >>
        /\ "warning" \in Levels(last.id)
        /\ "error" \notin Levels(last.id)

C3_Witness ==
    /\ RunEnded /\ Cancelled
    /\ last.frame.mode = "structured"
    /\ Outcomes(last.id) = << Fail >>

\* C4: every run-time fault other than cancellation raised while the prompt
\* is prepared or displayed, a stored schema that does not decode as JSON
\* included, makes on_step_run report Fail and is logged as an error, not
\* as a warning.
C4_FaultIsError ==
    (RunEnded /\ last.frame.fault \in TryFaults) =>
        /\ LastOutcome(last.id) = Fail
        /\ "error" \in Levels(last.id)
        /\ "warning" \notin Levels(last.id)

\* C5: whichever step of on_step_run fails, the call still ends with a Fail
\* outcome delivered to the host and no exception leaves on_step_run.
C5_NoFaultEscapes ==
    (RunEnded /\ last.frame.fault # "none") =>
        /\ last.frame.pc = "returned"
        /\ LastOutcome(last.id) = Fail

\* C6: a call of on_step_run that finds message and schema both empty (and
\* in which no call into the host raises) emits the success outcome and
\* nothing else: no prompt is opened, no notification is sent, nothing is
\* written to the step options; this holds of every such call, repeated
\* ones included.
C6_FastPath ==
    (/\ RunEnded
     /\ last.frame.fault = "none"
     /\ last.frame.step_options.message = ""
     /\ last.frame.step_options.schema = "") =>
        /\ last.frame.mode = "fast"
        /\ last.frame.buttons = {}
        /\ last.frame.response = "none"
        /\ Outcomes(last.id) = << None >>
        /\ NotifsBy(last.id) = << >>
        /\ WritesBy(last.id) = << >>
        /\ Levels(last.id) \subseteq {"info"}

C6_Witness ==
    /\ RunEnded
    /\ last.id = 2
    /\ last.frame.mode = "fast"
    /\ last.frame.fault = "none"
    /\ inv[1].fn = "on_step_run"
    /\ Outcomes(1) = << None >>
    /\ Outcomes(2) = << None >>

\* C7: with a non-empty message and an empty schema on_step_run opens a
\* message box with the two buttons accept and cancel; when no call
\* raises, accept yields the notification with the empty mapping and the
\* success outcome, and any other response yields Fail and no notification.
C7_MessageMode ==
    /\ \A id \in InvId :
          inv[id].pc = "dialog_run" =>
              /\ Truthy(inv[id].step_options.message)
              /\ inv[id].step_options.schema = ""
              /\ inv[id].buttons = {RESPONSE_ACCEPT, RESPONSE_REJECT}
    /\ (/\ RunEnded
        /\ last.frame.fault = "none"
        /\ Truthy(last.frame.step_options.message)
        /\ last.frame.step_options.schema = "") =>
           /\ last.frame.mode = "message"
           /\ last.frame.buttons = {RESPONSE_ACCEPT, RESPONSE_REJECT}
           /\ last.frame.response # "none"
           /\ IF last.frame.response = RESPONSE_ACCEPT
              THEN /\ NotifsBy(last.id) = << Notification(last.id, {}) >>
                   /\ Outcomes(last.id) = << None >>
              ELSE /\ NotifsBy(last.id) = << >>
                   /\ Outcomes(last.id) = << Fail >>

C7_Witness ==
    /\ RunEnded
    /\ last.frame.mode = "message"
    /\ last.frame.fault = "none"
    /\ last.frame.response = RESPONSE_ACCEPT
    /\ NotifsBy(last.id) = << Notification(last.id, {}) >>

\* C8: with a stored schema that decodes to a field set on_step_run opens
\* the structured prompt; when no call raises, submit yields the success
\* outcome and one notification carrying exactly the mapping the form
\* returned, whose keys are the declared field names, and cancel yields
\* Fail.
C8_StructuredMode ==
    /\ \A id \in InvId :
          inv[id].pc = "schema_dialog" =>
              GetFieldsFrameOk(JsonLoads(inv[id].step_options.schema))
    /\ (/\ RunEnded
        /\ last.frame.fault = "none"
        /\ GetFieldsFrameOk(JsonLoads(last.frame.step_options.schema))) =>
           /\ last.frame.mode = "structured"
           /\ last.frame.response \in {"submit", "cancel"}
           /\ IF last.frame.response = "submit"
              THEN /\ NotifsBy(last.id)
                        = << Notification(last.id, last.frame.values) >>
                   /\ Keys(last.frame.values)
                        = JsonLoads(last.frame.step_options.schema).fields
                   /\ Outcomes(last.id) = << None >>
              ELSE Outcomes(last.id) = << Fail >>

C8_Witness ==
    /\ RunEnded
    /\ last.frame.mode = "structured"
    /\ last.frame.fault = "none"
    /\ last.frame.response = "submit"
    /\ NotifsBy(last.id) = << Notification(last.id, {<< "voltage", 12 >>}) >>

\* C9: confirming the options dialog with a schema text that is not empty
\* and fails validation writes the step options once, with the schema
\* replaced by "" and the message as entered, logs the failure once and
\* raises nothing.
C9_InvalidSchemaNormalized ==
    (/\ EditEnded
     /\ last.frame.response = "ok"
     /\ last.frame.entered.schema # ""
     /\ ValidationRaises(last.frame.entered.schema)) =>
        /\ last.frame.pc = "returned"
        /\ Len(WritesBy(last.id)) = 1
        /\ WritesBy(last.id)[1].values
             = [message |-> last.frame.entered.message, schema |-> ""]
        /\ Len(LogBy(last.id)) = 1
        /\ Levels(last.id) = {"error"}

\* C10 as stated: a call of on_step_run that ends on the fast path, by
\* cancellation or by a fault sends no step-prompt-accepted notification,
\* and no Fail outcome comes after a notification of the same call.
C10_NotifiedOnlyOnSuccess ==
    RunEnded =>
        /\ (last.frame.mode = "fast" \/ Cancelled \/ last.frame.fault # "none")
              => NotifsBy(last.id) = << >>
        /\ (Fail \in { Outcomes(last.id)[i] : i \in DOMAIN Outcomes(last.id) })
              => NotifsBy(last.id) = << >>

\* C10, amended: a notification is sent at most once per call and only
\* after the operator accepted the prompt; a call that ends on the fast
\* path, by cancellation or by a fault raised before the notification is
\* emitted sends none, so a Fail outcome follows a notification only when
\* emitting the notification or the success outcome itself raised.
C10_NotifiedOnlyAfterAccept ==
    RunEnded =>
        /\ Len(NotifsBy(last.id)) <= 1
        /\ NotifsBy(last.id) # << >> => Accepted
        /\ (\/ last.frame.mode = "fast"
            \/ Cancelled
            \/ last.frame.fault \notin {"none", "emit_accepted",
                                        "emit_complete"})
              => NotifsBy(last.id) = << >>
        /\ (LastOutcome(last.id) = Fail /\ NotifsBy(last.id) # << >>)
              => last.frame.fault \in {"emit_accepted", "emit_complete"}

C10_Witness ==
    /\ RunEnded
    /\ Accepted
    /\ last.frame.fault = "emit_complete"
    /\ Len(NotifsBy(last.id)) = 1
    /\ LastOutcome(last.id) = Fail

(***************************************************************************)
(* Claims about the persisted schema, the outcomes and their order.        *)
(***************************************************************************)
\* C12: every schema value the edit flow has written is either "" or a
\* text that passes the validator (JSON decode, then field derivation),
\* whatever text the operator entered, whitespace-only text included.
C12_PersistedSchemaUsable ==
    \A i \in DOMAIN writes :
        \/ writes[i].values.schema = ""
        \/ ~ ValidationRaises(writes[i].values.schema)

\* C13: every on_step_complete emission of the plugin carries the plugin's
\* name and the outcome None or 'Fail'; 'Retry' and 'Repeat' are never
\* emitted.
C13_OutcomeNoneOrFail ==
    \A i \in DOMAIN emitted :
        /\ emitted[i].name = PluginName
        /\ emitted[i].outcome \in {None, Fail}
        /\ emitted[i].outcome \notin {"Retry", "Repeat"}

C13_Witness ==
    /\ \E i \in DOMAIN emitted : emitted[i].outcome = None
    /\ \E i \in DOMAIN emitted :
          /\ emitted[i].outcome = Fail
          /\ \E j \in DOMAIN log : log[j].id = emitted[i].id
                                      /\ log[j].level = "error"

\* The signals the call that ended last has sent, in the order of sending.
LastEvents == last.frame.events
IsNotified(e) == e.signal = "step-prompt-accepted"
IsSuccess(e) == e.signal = "on_step_complete" /\ e.outcome = None

\* C14: when the operator accepted the prompt, the call sends the
\* step-prompt-accepted notification once (not at all only when emitting
\* the notification itself raised before delivery), and every success
\* outcome of the call is sent after the notification: the success outcome
\* is never sent first, and never without the notification.
C14_NotifiedBeforeSuccess ==
    (RunEnded /\ Accepted) =>
        /\ Len(NotifsBy(last.id)) <= 1
        /\ last.frame.fault # "emit_accepted" => Len(NotifsBy(last.id)) = 1
        /\ Len(SelectSeq(LastEvents, IsNotified)) = Len(NotifsBy(last.id))
        /\ \A i \in DOMAIN LastEvents :
              IsSuccess(LastEvents[i]) =>
                  \E j \in 1 .. (i - 1) : IsNotified(LastEvents[j])
        /\ last.frame.fault = "none" =>
              LastEvents = << Event("step-prompt-accepted", ""),
                              Event("on_step_complete", None) >>

C14_Witness ==
    /\ RunEnded
    /\ Accepted
    /\ last.frame.mode = "structured"
    /\ last.frame.fault = "none"
    /\ LastEvents = << Event("step-prompt-accepted", ""),
                       Event("on_step_complete", None) >>
    /\ NotifsBy(last.id) = << Notification(last.id, last.frame.values) >>

(***************************************************************************)
(* Claims about the stored step options.                                   *)
(***************************************************************************)
\* A step of the model in which the options dialog of some call returns
\* confirmed.
ConfirmedEditStep ==
    \E id \in InvId :
        /\ inv[id].fn = "on_step_options_menu__activate"
        /\ inv[id].pc = "edit_dialog"
        /\ inv'[id].pc = "returned"
        /\ last'.id = id
        /\ last'.frame.response = "ok"

\* C15: the stored step options change, and a write is made, only in a step
\* in which an options dialog returns confirmed; no call of on_step_run has
\* written anything, whichever branch it took, and a cancelled options
\* dialog has written nothing.
C15_OnlyConfirmedEditWrites ==
    /\ [][(steps' # steps \/ writes' # writes) => ConfirmedEditStep]_vars
    /\ [](RunEnded => WritesBy(last.id) = << >>)
    /\ []((EditEnded /\ last.frame.response = "cancel")
             => WritesBy(last.id) = << >>)

C15_Witness ==
    /\ EditEnded
    /\ last.frame.response = "cancel"
    /\ WritesBy(last.id) = << >>
    /\ Len(writes) = 1
    /\ steps[writes[1].step] = writes[1].values
    /\ steps[writes[1].step] # DefaultOptions

(***************************************************************************)
(* Claims about the prompts that are open.                                 *)
(***************************************************************************)
\* The calls of on_step_run whose prompt is open.
OpenPrompts ==
    { id \in InvId : /\ inv[id].fn = "on_step_run"
                     /\ inv[id].pc \in {"dialog_run", "schema_dialog"} }

\* C16: when the host invokes on_step_run only after every earlier call has
\* reported its outcome, at most one step prompt is open in every reachable
\* state, also when queued callbacks run inside the main loop of an open
\* prompt or of the options dialog.
C16_AtMostOnePrompt == Cardinality(OpenPrompts) <= 1

C16_Witness ==
    /\ inv[1].fn = "on_step_run"
    /\ inv[1].pc = "returned"
    /\ OutcomeReported(1)
    /\ OpenPrompts = {2}
    /\ stack = << 2 >>

\* A step of the model in which the prompt of call id closes.
PromptCloses(id) == id \in OpenPrompts /\ id \notin OpenPrompts'

\* C17: a call of on_step_run whose step has a message or a schema reports
\* no outcome while it is queued or its prompt is open; its prompt closes
\* only by a response of the operator or by a fault, never by a timeout;
\* a call that has ended opens no prompt again; and a call that has
\* reported an outcome for such a step has got a response or a fault.
C17_NeverCompletedWithoutOperator ==
    /\ [](\A id \in InvId :
            (inv[id].fn = "on_step_run"
               /\ inv[id].pc \in {"queued", "dialog_run", "schema_dialog"})
                 => ~ OutcomeReported(id))
    /\ []((/\ RunEnded
           /\ ~ NothingToDo(last.frame.step_options)
           /\ OutcomeReported(last.id))
              => (last.frame.response # "none" \/ last.frame.fault # "none"))
    /\ [][\A id \in InvId :
            /\ PromptCloses(id) =>
                  /\ last'.id = id
                  /\ (last'.frame.response # "none"
                        \/ last'.frame.fault # "none")
            /\ inv[id].pc \in {"returned", "raised"} => inv'[id] = inv[id]]_vars

C17_Witness ==
    /\ RunEnded
    /\ last.frame.mode = "structured"
    /\ Truthy(last.frame.step_options.message)
    /\ last.frame.response = "cancel"
    /\ Outcomes(last.id) = << Fail >>

(***************************************************************************)
(* Claims about the title of the prompt.                                   *)
(***************************************************************************)
\* The frames of on_step_run that have built the prompt of a step: those of
\* the prompts that are open and that of the call that ended last.
PromptFrames ==
    { inv[id] : id \in OpenPrompts }
    \cup (IF RunEnded /\ last.frame.mode \in {"message", "structured"}
          THEN {last.frame} ELSE {})

\* C18 as stated: the title is "Step {n+1}" in message mode and for a form
\* without a message, and "Step {n+1}] {message}" for a form with a message,
\* n being the zero-based index of the current step.
C18_TitleAsStated ==
    \A f \in PromptFrames :
        IF f.mode = "structured" /\ Truthy(f.step_options.message)
        THEN f.title = << "Step ", Str(f.step + 1), "] ",
                          f.step_options.message >>
        ELSE f.title = << "Step ", Str(f.step + 1) >>

\* C18, amended: the title is "Step {n+1}" in message mode and for a form
\* without a message, and "[Step {n+1}] {message}", with the step part in
\* square brackets, for a form with a message.
C18_TitleBracketed ==
    \A f \in PromptFrames :
        IF f.mode = "structured" /\ Truthy(f.step_options.message)
        THEN f.title = << "[", "Step ", Str(f.step + 1), "] ",
                          f.step_options.message >>
        ELSE f.title = << "Step ", Str(f.step + 1) >>

C18_Witness ==
    \E id \in OpenPrompts :
        /\ inv[id].pc = "schema_dialog"
        /\ inv[id].step = 1
        /\ inv[id].step_options.message = MessageText
        /\ inv[id].title = << "[", "Step ", "2", "] ", MessageText >>

\* C19: a confirmed options dialog writes the entered values to the step
\* whose options it loaded when it opened, also when the host has selected
\* another step while the dialog was open.
C19_EditWritesStepItRead ==
    (EditEnded /\ last.frame.response = "ok") =>
        \A i \in DOMAIN WritesBy(last.id) :
            WritesBy(last.id)[i].step = last.frame.step

(***************************************************************************)
(* Claims about the menu entry and the thread of the user interface.       *)
(***************************************************************************)
\* C20: once the UI thread has processed a create_ui the Tools menu holds
\* exactly one entry of the plugin, once it has processed a destroy_ui it
\* holds none; the menu never holds two entries, and holds only items that
\* create_ui made.
C20_MenuEntryLifecycle ==
    /\ Len(menu_tools) <= 1
    /\ last.frame.fn = "create_ui" => Len(menu_tools) = 1
    /\ last.frame.fn = "destroy_ui" => menu_tools = << >>
    /\ \A i \in DOMAIN menu_tools : menu_tools[i] \in 1 .. step_options_menu

\* The calls whose body the UI thread is running, blocked in a dialog or
\* not.
Running == { stack[i] : i \in DOMAIN stack }

====
